---- MODULE Spec2Model ----
(***************************************************************************)
(* A model of the two utilities of the repository:                         *)
(*   scripts/test-bpmn-combined.py  combine_schemas (with its inner        *)
(*                                  update_refs) and the ajv loop          *)
(*   scripts/test-bpmn-json.py      check_bpmn_file                        *)
(*                                                                         *)
(* Strings are sequences of tokens.  The tokens are chosen so that no      *)
(* token is a prefix of another and none of "bpmn-", ".json",              *)
(* "#/definitions/" can straddle a token boundary, hence Python's          *)
(* startswith / split / replace on characters are the token operations     *)
(* below, and two strings are equal exactly when their token sequences     *)
(* are.                                                                    *)
(*                                                                         *)
(* The dicts the code assigns into after they are shared (the loaded       *)
(* documents, the copy of the base document, the dict update_refs builds)  *)
(* are objects of heap, reached by address.  What they hold is a value: no *)
(* statement of the source assigns into a nested dict or list.  The write  *)
(* of the output file is one step.                                         *)
(***************************************************************************)
EXTENDS Integers, Sequences, FiniteSets, TLC

VARIABLES
    pc,              \* position of combine_schemas
    i,               \* number of schema_files the loading loop has taken
    files,           \* what the run found in each schema file
    heap,            \* the top-level dict objects (the ones the code assigns into)
    schemas,         \* the dict schemas, in insertion order: <<[name, addr], ...>>
    combined,        \* the object the variable combined refers to (0: unbound)
    all_definitions, \* the dict all_definitions
    out,             \* schemas/bpmn-combined.json
    j,               \* number of test_files the ajv loop has taken
    reports,         \* the pass/fail lines printed by the ajv loop
    cpc,             \* position of check_bpmn_file
    data,            \* the file given to check_bpmn_file
    errors           \* the list check_bpmn_file returned

vars == <<pc, i, files, heap, schemas, combined, all_definitions, out, j,
          reports, cpc, data, errors>>

combineVars == <<pc, i, files, heap, schemas, combined, all_definitions, out,
                 j, reports>>

checkVars == <<cpc, data, errors>>

-----------------------------------------------------------------------------
(* Bounds of the model.                                                    *)

\* nesting of "items" / "anyOf" around a schema leaf
MaxDepth == 1

\* number of entries (events, activities, gateways, sequence flows, arrays
\* written []) of the elements of a BPMN document
MaxElems == 2

-----------------------------------------------------------------------------
(* Python str operations, on token sequences.                              *)

StartsWith(s, tok) == Len(s) > 0 /\ s[1] = tok

RECURSIVE Replace(_, _, _)
Replace(s, old, new) ==
    IF s = <<>> THEN <<>>
    ELSE (IF Head(s) = old THEN new ELSE <<Head(s)>>) \o Replace(Tail(s), old, new)

RECURSIVE Split(_, _)
Split(s, sep) ==
    IF s = <<>> THEN << <<>> >>
    ELSE LET rest == Split(Tail(s), sep)
         IN  IF Head(s) = sep THEN << <<>> >> \o rest
             ELSE << <<Head(s)>> \o Head(rest) >> \o Tail(rest)

\* Path(filepath).stem: the last path component without its last suffix
Stem(filepath) ==
    LET dirs == {k \in 1..Len(filepath) : filepath[k] = "schemas/"}
        from == IF dirs = {} THEN 1
                ELSE (CHOOSE k \in dirs : \A m \in dirs : m <= k) + 1
        name == SubSeq(filepath, from, Len(filepath))
    IN  IF Len(name) > 1 /\ name[Len(name)] = ".json"
        THEN SubSeq(name, 1, Len(name) - 1)
        ELSE name

-----------------------------------------------------------------------------
(* JSON values.  Every dict key is a string (a token sequence).            *)

Str(s) == [t |-> "str", s |-> s]
Obj(kv) == [t |-> "obj", kv |-> kv]
Arr(items) == [t |-> "arr", items |-> items]
Free == [t |-> "free"]

K(tok) == <<tok>>

\* d[k] = v on a dict
DictSet(d, k, v) == [x \in DOMAIN d \cup {k} |-> IF x = k THEN v ELSE d[x]]

\* del d[k]
DictDel(d, k) == [x \in DOMAIN d \ {k} |-> d[x]]

-----------------------------------------------------------------------------
(* combine_schemas: the hardcoded lists.                                   *)

schema_files == <<
    <<"schemas/", "bpmn-", "common", ".json">>,
    <<"schemas/", "bpmn-", "flow-objects", ".json">>,
    <<"schemas/", "bpmn-", "connectors", ".json">>,
    <<"schemas/", "bpmn-", "artifacts", ".json">>,
    <<"schemas/", "bpmn-", "agents", ".json">>,
    <<"schemas/", "bpmn-", "process", ".json">> >>

test_files == <<"test-data/simple-process.json",
                "test-data/parallel-gateway.json",
                "test-data/exclusive-gateway.json">>

BaseName == <<"bpmn-", "process">>

NFiles == Len(schema_files)

\* the addresses of the dicts made by .copy() and by update_refs at top level
AddrCopy == NFiles + 1
AddrNew == NFiles + 2
Addrs == 1..AddrNew

-----------------------------------------------------------------------------
(* The schema documents a run may find in the files.                       *)

EmptyDict == [x \in {} |-> Free]

NX == <<"x">>
NCX == <<"common", "_", "x">>
NBX == <<"bpmn-", "x">>

\* "#/definitions/<name>" and "<file>#/definitions/<name>"
Local(name) == <<"#/definitions/">> \o name
Ext(stem, name) == stem \o <<".json", "#/definitions/">> \o name
Unrelated == <<"http://json-schema.org/draft-07/schema#">>

Scalar == Obj(K("type") :> Str(<<"string">>))
RefTo(r) == Obj(K("$ref") :> Str(r))

\* a property that happens to be called "$ref": its value is no string
PropNamedRef == Obj(K("properties") :> Obj(K("$ref") :> Scalar))

Wrap(b) == {Obj(K("items") :> b), Obj(K("anyOf") :> Arr(<<b, Scalar>>))}

RECURSIVE Bodies(_, _)
Bodies(leaves, d) ==
    IF d = 0 THEN leaves
    ELSE leaves \cup UNION {Wrap(b) : b \in Bodies(leaves, d - 1)}

Doc(stem, hasId, top, hasDefs, defs) ==
    Obj((K("type") :> Str(<<"object">>))
        @@ (K("properties") :> Obj(K("p") :> top))
        @@ (IF hasId THEN K("$id") :> Str(<<"urn:">> \o stem) ELSE EmptyDict)
        @@ (IF hasDefs THEN K("definitions") :> Obj(defs) ELSE EmptyDict))

CommonLeaves ==
    {Scalar, PropNamedRef, RefTo(Local(NX)), RefTo(Ext(BaseName, NX)),
     RefTo(Unrelated)}

CommonDocs ==
    {Doc(<<"bpmn-", "common">>, TRUE, Scalar, FALSE, EmptyDict)}
    \cup {Doc(<<"bpmn-", "common">>, TRUE, Scalar, TRUE, NX :> b) :
             b \in Bodies(CommonLeaves, MaxDepth)}

AgentsDocs ==
    {Doc(<<"bpmn-", "agents">>, TRUE, Scalar, TRUE, defs) :
        defs \in {EmptyDict, NX :> Scalar,
                  NX :> RefTo(Ext(<<"bpmn-", "common">>, NX))}}

FlowObjectsDocs ==
    {Doc(<<"bpmn-", "flow-objects">>, TRUE, Scalar, FALSE, EmptyDict),
     Doc(<<"bpmn-", "flow-objects">>, TRUE, Scalar, TRUE,
         NX :> RefTo(Ext(<<"bpmn-", "agents">>, NX))),
     Doc(<<"bpmn-", "flow-objects">>, TRUE, Scalar, TRUE,
         (NX :> Scalar) @@ (NBX :> RefTo(Ext(<<"bpmn-", "flow-objects">>, NX))))}

ProcessDocs ==
    {Doc(BaseName, hasId, top, hasDefs, defs) :
        hasId \in BOOLEAN,
        top \in {Scalar, RefTo(Ext(<<"bpmn-", "common">>, NX)),
                 Obj(K("items") :> RefTo(Ext(<<"bpmn-", "agents">>, NX)))},
        hasDefs \in {TRUE},
        defs \in {NX :> Scalar, NCX :> Scalar,
                  NX :> RefTo(Ext(<<"bpmn-", "flow-objects">>, NBX)),
                  (NX :> Scalar) @@ (NCX :> RefTo(Local(NX)))}}
    \cup {Doc(BaseName, hasId, RefTo(Ext(<<"bpmn-", "common">>, NX)), FALSE,
              EmptyDict) : hasId \in BOOLEAN}

DocsOf(stem) ==
    CASE stem = <<"bpmn-", "common">> -> CommonDocs
      [] stem = <<"bpmn-", "agents">> -> AgentsDocs
      [] stem = <<"bpmn-", "flow-objects">> -> FlowObjectsDocs
      [] stem = BaseName -> ProcessDocs
      [] OTHER -> {Doc(stem, TRUE, Scalar, TRUE, NX :> Scalar)}

\* what open() and json.load() can find at a path
Contents(filepath) ==
    {[kind |-> "missing"], [kind |-> "malformed"]}
    \cup {[kind |-> "json", doc |-> d] : d \in DocsOf(Stem(filepath))}

Unread == [kind |-> "unread"]

-----------------------------------------------------------------------------
(* combine_schemas: merging the definitions.                               *)

\* MergeKey with the prefix taken from the schema name as it is
MergeKeyKeepsStem(name, def_name) ==
    IF name = BaseName THEN def_name ELSE (name \o <<"_">>) \o def_name

\* the key under which definition def_name of schema name is stored
MergeKey(name, def_name) ==
    IF name = BaseName THEN def_name
    ELSE (Replace(name, "bpmn-", <<>>) \o <<"_">>) \o def_name

\* one round of the loop over schemas.items()
MergeOne(acc, name, schema) ==
    IF K("definitions") \notin DOMAIN schema.kv THEN acc
    ELSE LET defs == schema.kv[K("definitions")].kv
             keys == {MergeKey(name, d) : d \in DOMAIN defs}
         IN  [x \in DOMAIN acc \cup keys |->
                 IF x \in keys
                 THEN defs[CHOOSE d \in DOMAIN defs : MergeKey(name, d) = x]
                 ELSE acc[x]]

RECURSIVE MergeFrom(_, _, _, _)
MergeFrom(acc, sch, hp, k) ==
    IF k > Len(sch) THEN acc
    ELSE MergeFrom(MergeOne(acc, sch[k].name, hp[sch[k].addr]), sch, hp, k + 1)

MergeDefinitions(sch, hp) == MergeFrom(EmptyDict, sch, hp, 1)

-----------------------------------------------------------------------------
(* update_refs.                                                            *)

\* RewriteRef without the special case of the base document
RewriteRefPrefixesBase(value) ==
    IF StartsWith(value, "bpmn-")
    THEN LET parts == Split(value, "#/definitions/")
         IN  IF Len(parts) = 2
             THEN <<"#/definitions/">>
                  \o (Replace(Replace(parts[1], ".json", <<>>), "bpmn-", <<>>)
                      \o <<"_">>)
                  \o parts[2]
             ELSE value
    ELSE value

\* the new value of a "$ref" key whose value is a str
RewriteRef(value) ==
    IF StartsWith(value, "bpmn-")
    THEN LET parts == Split(value, "#/definitions/")
         IN  IF Len(parts) = 2
             THEN LET source_schema == Replace(parts[1], ".json", <<>>)
                      def_name == parts[2]
                  IN  IF source_schema = BaseName
                      THEN <<"#/definitions/">> \o def_name
                      ELSE <<"#/definitions/">>
                           \o (Replace(source_schema, "bpmn-", <<>>) \o <<"_">>)
                           \o def_name
             ELSE value
    ELSE value

RECURSIVE update_refs(_, _)
update_refs(obj, schema_name) ==
    IF obj.t = "obj"
    THEN Obj([key \in DOMAIN obj.kv |->
                 IF key = K("$ref") /\ obj.kv[key].t = "str"
                 THEN Str(RewriteRef(obj.kv[key].s))
                 ELSE update_refs(obj.kv[key], schema_name)])
    ELSE IF obj.t = "arr"
    THEN Arr([n \in 1..Len(obj.items) |-> update_refs(obj.items[n], schema_name)])
    ELSE obj

-----------------------------------------------------------------------------
(* combine_schemas, statement by statement.                                *)

\* AfterLoad with the exception swallowed
AfterLoadSwallows(ok, n) == IF n = NFiles THEN "copy" ELSE "load"

\* where the loading loop goes after file n: an exception of open() or
\* json.load() is not caught and ends the run
AfterLoad(ok, n) ==
    IF ~ok THEN "aborted" ELSE IF n = NFiles THEN "copy" ELSE "load"

\* CopyResult without the copy: combined = schemas['bpmn-process']
CopyResultAlias(receiver, fresh) == receiver

\* the object that schemas['bpmn-process'].copy() evaluates to, given the
\* receiver and the next unused address
CopyResult(receiver, fresh) == fresh

HasSchema(name) == \E k \in 1..Len(schemas) : schemas[k].name = name

AddrOf(name) == schemas[CHOOSE k \in 1..Len(schemas) : schemas[k].name = name].addr

NoFile == [t |-> "absent"]

InitCombine ==
    /\ pc = "load"
    /\ i = 0
    /\ files = [k \in 1..NFiles |-> Unread]
    /\ heap = [a \in Addrs |-> Free]
    /\ schemas = <<>>
    /\ combined = 0
    /\ all_definitions = EmptyDict
    /\ out = NoFile
    /\ j = 0
    /\ reports = <<>>

IdleCheck == cpc = "idle" /\ data = [kind |-> "none"] /\ errors = <<>>

\* lines 23-27: one round of the loading loop
Load ==
    /\ pc = "load"
    /\ i < NFiles
    /\ \E c \in Contents(schema_files[i + 1]) :
          /\ files' = [files EXCEPT ![i + 1] = c]
          /\ i' = i + 1
          /\ pc' = AfterLoad(c.kind = "json", i + 1)
          /\ IF c.kind = "json"
             THEN /\ heap' = [heap EXCEPT ![i + 1] = c.doc]
                  /\ schemas' = Append(schemas,
                                       [name |-> Stem(schema_files[i + 1]),
                                        addr |-> i + 1])
             ELSE UNCHANGED <<heap, schemas>>
    /\ UNCHANGED <<combined, all_definitions, out, j, reports, checkVars>>

\* line 30: combined = schemas['bpmn-process'].copy()
Copy ==
    /\ pc = "copy"
    /\ IF HasSchema(BaseName)
       THEN /\ heap' = [heap EXCEPT ![AddrCopy] = heap[AddrOf(BaseName)]]
            /\ combined' = CopyResult(AddrOf(BaseName), AddrCopy)
            /\ pc' = "merge"
       ELSE /\ pc' = "aborted"
            /\ UNCHANGED <<heap, combined>>
    /\ UNCHANGED <<i, files, schemas, all_definitions, out, j, reports, checkVars>>

\* lines 33-45: the loop filling all_definitions
Merge ==
    /\ pc = "merge"
    /\ all_definitions' = MergeDefinitions(schemas, heap)
    /\ pc' = "attach"
    /\ UNCHANGED <<i, files, heap, schemas, combined, out, j, reports, checkVars>>

\* line 47: combined['definitions'] = all_definitions
Attach ==
    /\ pc = "attach"
    /\ heap' = [heap EXCEPT ![combined] =
                   Obj(DictSet(@.kv, K("definitions"), Obj(all_definitions)))]
    /\ pc' = "update"
    /\ UNCHANGED <<i, files, schemas, combined, all_definitions, out, j, reports,
                   checkVars>>

\* line 79: combined = update_refs(combined, 'bpmn-process')
UpdateRefs ==
    /\ pc = "update"
    /\ heap' = [heap EXCEPT ![AddrNew] = update_refs(heap[combined], BaseName)]
    /\ combined' = AddrNew
    /\ pc' = "delid"
    /\ UNCHANGED <<i, files, schemas, all_definitions, out, j, reports, checkVars>>

\* lines 82-83: if '$id' in combined: del combined['$id']
DelId ==
    /\ pc = "delid"
    /\ heap' = [heap EXCEPT ![combined] =
                   IF K("$id") \in DOMAIN @.kv THEN Obj(DictDel(@.kv, K("$id")))
                   ELSE @]
    /\ pc' = "write"
    /\ UNCHANGED <<i, files, schemas, combined, all_definitions, out, j, reports,
                   checkVars>>

\* lines 86-87: open('schemas/bpmn-combined.json', 'w'); json.dump(combined, f)
Write ==
    /\ pc = "write"
    /\ out' = heap[combined]
    /\ pc' = "validate"
    /\ UNCHANGED <<i, files, heap, schemas, combined, all_definitions, j, reports,
                   checkVars>>

\* lines 99-111: ajv ran on the next test file and exited with returncode
Validate ==
    /\ pc = "validate"
    /\ j < Len(test_files)
    /\ \E returncode \in {0, 1} :
          reports' = Append(reports, [file |-> test_files[j + 1],
                                      valid |-> (returncode = 0),
                                      returncode |-> returncode])
    /\ j' = j + 1
    /\ pc' = IF j + 1 = Len(test_files) THEN "done" ELSE "validate"
    /\ UNCHANGED <<i, files, heap, schemas, combined, all_definitions, out,
                   checkVars>>

\* line 102: subprocess.run raises (no ajv to start); nothing catches it
ValidatorFailsToStart ==
    /\ pc = "validate"
    /\ j < Len(test_files)
    /\ pc' = "crashed"
    /\ UNCHANGED <<i, files, heap, schemas, combined, all_definitions, out, j,
                   reports, checkVars>>

NextCombine ==
    \/ Load
    \/ Copy
    \/ Merge
    \/ Attach
    \/ UpdateRefs
    \/ DelId
    \/ Write
    \/ Validate
    \/ ValidatorFailsToStart

Init == InitCombine /\ IdleCheck

Next == NextCombine

Spec == Init /\ [][Next]_vars

-----------------------------------------------------------------------------
(* What the claims speak of: the documents as loaded, the references in a  *)
(* document, the definition a reference denotes, the renaming rule as the  *)
(* specification words it.                                                 *)

NameOf(k) == Stem(schema_files[k])

WasLoaded(k) == files[k].kind = "json"

Defs(doc) ==
    IF K("definitions") \in DOMAIN doc.kv THEN doc.kv[K("definitions")].kv
    ELSE EmptyDict

RECURSIVE RefsIn(_)
RefsIn(v) ==
    IF v.t = "obj"
    THEN UNION {IF key = K("$ref") /\ v.kv[key].t = "str" THEN {v.kv[key].s}
                ELSE RefsIn(v.kv[key]) : key \in DOMAIN v.kv}
    ELSE IF v.t = "arr" THEN UNION {RefsIn(v.items[n]) : n \in 1..Len(v.items)}
    ELSE {}

\* v with every "$ref" string blanked: all of v that is not a reference
RECURSIVE Erase(_)
Erase(v) ==
    IF v.t = "obj"
    THEN Obj([key \in DOMAIN v.kv |->
                 IF key = K("$ref") /\ v.kv[key].t = "str" THEN Str(<<>>)
                 ELSE Erase(v.kv[key])])
    ELSE IF v.t = "arr" THEN Arr([n \in 1..Len(v.items) |-> Erase(v.items[n])])
    ELSE v

\* the references of a and of b at the same places (a and b of one shape)
RECURSIVE RefPairs(_, _)
RefPairs(a, b) ==
    IF a.t = "obj"
    THEN UNION {IF key = K("$ref") /\ a.kv[key].t = "str"
                THEN {<<a.kv[key].s, b.kv[key].s>>}
                ELSE RefPairs(a.kv[key], b.kv[key]) : key \in DOMAIN a.kv}
    ELSE IF a.t = "arr"
    THEN UNION {RefPairs(a.items[n], b.items[n]) : n \in 1..Len(a.items)}
    ELSE {}

IsLocalPtr(r) == Len(r) >= 1 /\ r[1] = "#/definitions/"

\* "<file>#/definitions/<name>" with a non-empty file part
IsExternalForm(r) ==
    /\ Len(Split(r, "#/definitions/")) = 2
    /\ Split(r, "#/definitions/")[1] # <<>>

FilePart(r) == Split(r, "#/definitions/")[1]
NamePart(r) == Split(r, "#/definitions/")[2]

FileName(stem) == stem \o <<".json">>

\* the loaded documents a file part names
Named(file) == {k \in 1..NFiles : WasLoaded(k) /\ FileName(NameOf(k)) = file}

\* the (document, definition) pairs that reference r, found in document k,
\* denotes
Denotes(r, k) ==
    IF IsLocalPtr(r) THEN {<<k, Tail(r)>>}
    ELSE IF IsExternalForm(r) THEN {<<m, NamePart(r)>> : m \in Named(FilePart(r))}
    ELSE {}

Resolves(r, k) ==
    /\ Denotes(r, k) # {}
    /\ \A t \in Denotes(r, k) : t[2] \in DOMAIN Defs(files[t[1]].doc)

\* the document's short name with the leading "bpmn-" removed
ShortName(stem) == IF StartsWith(stem, "bpmn-") THEN Tail(stem) ELSE stem

\* the renaming rule
RenamedKey(stem, name) ==
    IF stem = BaseName THEN name ELSE (ShortName(stem) \o <<"_">>) \o name

SourceEntries ==
    UNION {{<<k, e>> : e \in DOMAIN Defs(files[k].doc)} :
              k \in {m \in 1..NFiles : WasLoaded(m)}}

BaseIndex == CHOOSE k \in 1..NFiles : NameOf(k) = BaseName

Merged == pc \in {"attach", "update", "delid", "write", "validate", "done", "crashed"}

Finished == pc \in {"write", "validate", "done", "crashed"}

-----------------------------------------------------------------------------
(* check_bpmn_file.  A BPMN document is a dict with plain keys; an error   *)
(* string is the record of its message and the id and value it prints (an  *)
(* element without id is printed whole: "?" stands for it).                *)

NoKeys == [x \in {} |-> ""]

Get(d, key, default) == IF key \in DOMAIN d THEN d[key] ELSE default

Err(msg, id, val) == [msg |-> msg, id |-> id, val |-> val]

Events ==
    {idp @@ tp :
        idp \in {NoKeys, "id" :> "e1"},
        tp \in {NoKeys, "type" :> "startEvent", "type" :> "boundaryEvent",
                ("type" :> "boundaryEvent") @@ ("attachedToRef" :> "a1")}}

Agents ==
    {tp @@ sp : tp \in {NoKeys, "type" :> "llm"},
                sp \in {NoKeys, "strategy" :> "static"}}

Activities ==
    {idp @@ np @@ tp :
        idp \in {NoKeys, "id" :> "a1"},
        np \in {NoKeys, "name" :> "Task"},
        tp \in {NoKeys, "type" :> "task"}}
    \cup {("id" :> "a1") @@ ("name" :> "Task") @@ ("type" :> "task")
              @@ ("agent" :> ag) : ag \in Agents}

Gateways ==
    {idp @@ tp : idp \in {NoKeys, "id" :> "g1"},
                 tp \in {NoKeys, "type" :> "exclusiveGateway"}}

Flows ==
    {idp @@ sp @@ tp :
        idp \in {NoKeys, "id" :> "f1"},
        sp \in {NoKeys, "sourceRef" :> "e1", "sourceRef" :> "a1"},
        tp \in {NoKeys, "targetRef" :> "a1", "targetRef" :> "g1",
                "targetRef" :> "a2"}}

Kinds == <<"events", "activities", "gateways", "sequenceFlows">>

Tagged ==
    {<<1, e>> : e \in Events} \cup {<<2, e>> : e \in Activities}
    \cup {<<3, e>> : e \in Gateways} \cup {<<4, e>> : e \in Flows}

\* the elements of a document, kind by kind
ElementSeqs ==
    UNION {{s \in [1..n -> Tagged] : \A m \in 1..(n - 1) : s[m][1] <= s[m + 1][1]} :
              n \in 0..MaxElems}

ListOfKind(s, kd) ==
    LET at == {m \in 1..Len(s) : s[m][1] = kd}
        first == IF at = {} THEN 1 ELSE CHOOSE m \in at : \A o \in at : m <= o
    IN  [m \in 1..Cardinality(at) |-> s[first + m - 1][2]]

KindsIn(s) == {s[m][1] : m \in 1..Len(s)}

\* the members of a document with the arrays that are written []: an empty
\* array counts as one entry of the document
ElementChoices ==
    {q \in ElementSeqs \X SUBSET (1..Len(Kinds)) :
        /\ q[2] \cap KindsIn(q[1]) = {}
        /\ Len(q[1]) + Cardinality(q[2]) <= MaxElems}

\* the "elements" object with members s and the arrays of E written []
ElementsObj(s, E) ==
    LET present == KindsIn(s) \cup E
    IN  [key \in {Kinds[kd] : kd \in present} |->
            ListOfKind(s, CHOOSE kd \in present : Kinds[kd] = key)]

ProcessHeads ==
    {idp @@ np : idp \in {NoKeys, "id" :> "p1"}, np \in {NoKeys, "name" :> "P"}}

BpmnRoots ==
    {NoKeys}
    \cup {"process" :> h : h \in ProcessHeads}
    \cup {"process" :> (h @@ ("elements" :> ElementsObj(q[1], q[2]))) :
             h \in ProcessHeads, q \in ElementChoices}

\* what open() and json.load() can find at filepath
BpmnFiles ==
    {[kind |-> "unparsable"]} \cup {[kind |-> "json", root |-> r] : r \in BpmnRoots}

\* EventErrors asking every event for attachedToRef
EventErrorsAllAttached(event) ==
    (IF "id" \notin DOMAIN event THEN <<Err("Event missing 'id'", "?", "")>>
     ELSE <<>>)
    \o (IF "type" \notin DOMAIN event
        THEN <<Err("Event missing 'type'", Get(event, "id", "?"), "")>>
        ELSE <<>>)
    \o (IF "attachedToRef" \notin DOMAIN event
        THEN <<Err("Boundary event missing 'attachedToRef'",
                   Get(event, "id", "?"), "")>>
        ELSE <<>>)

\* lines 43-54: the errors of one event
EventErrors(event) ==
    (IF "id" \notin DOMAIN event THEN <<Err("Event missing 'id'", "?", "")>>
     ELSE <<>>)
    \o (IF "type" \notin DOMAIN event
        THEN <<Err("Event missing 'type'", Get(event, "id", "?"), "")>>
        ELSE <<>>)
    \o (IF Get(event, "type", "None") = "boundaryEvent"
           /\ "attachedToRef" \notin DOMAIN event
        THEN <<Err("Boundary event missing 'attachedToRef'",
                   Get(event, "id", "?"), "")>>
        ELSE <<>>)

\* AgentErrors with the second test made an elif
AgentErrorsElif(activity) ==
    IF "agent" \notin DOMAIN activity THEN <<>>
    ELSE IF "type" \notin DOMAIN activity.agent
    THEN <<Err("Activity agent missing 'type'", Get(activity, "id", "?"), "")>>
    ELSE IF "strategy" \notin DOMAIN activity.agent
    THEN <<Err("Activity agent missing 'strategy'", Get(activity, "id", "?"), "")>>
    ELSE <<>>

\* lines 69-74: the errors of an activity's agent
AgentErrors(activity) ==
    IF "agent" \notin DOMAIN activity THEN <<>>
    ELSE (IF "type" \notin DOMAIN activity.agent
          THEN <<Err("Activity agent missing 'type'", Get(activity, "id", "?"), "")>>
          ELSE <<>>)
         \o (IF "strategy" \notin DOMAIN activity.agent
             THEN <<Err("Activity agent missing 'strategy'",
                        Get(activity, "id", "?"), "")>>
             ELSE <<>>)

\* lines 58-74: the errors of one activity
ActivityErrors(activity) ==
    (IF "id" \notin DOMAIN activity THEN <<Err("Activity missing 'id'", "?", "")>>
     ELSE <<>>)
    \o (IF "name" \notin DOMAIN activity
        THEN <<Err("Activity missing 'name'", Get(activity, "id", "?"), "")>>
        ELSE <<>>)
    \o (IF "type" \notin DOMAIN activity
        THEN <<Err("Activity missing 'type'", Get(activity, "id", "?"), "")>>
        ELSE <<>>)
    \o AgentErrors(activity)

\* lines 78-84: the errors of one gateway
GatewayErrors(gateway) ==
    (IF "id" \notin DOMAIN gateway THEN <<Err("Gateway missing 'id'", "?", "")>>
     ELSE <<>>)
    \o (IF "type" \notin DOMAIN gateway
        THEN <<Err("Gateway missing 'type'", Get(gateway, "id", "?"), "")>>
        ELSE <<>>)

\* lines 88-98: the errors of one sequence flow
FlowErrors(flow, all_ids) ==
    (IF "id" \notin DOMAIN flow THEN <<Err("Sequence flow missing 'id'", "?", "")>>
     ELSE <<>>)
    \o (IF "sourceRef" \notin DOMAIN flow
        THEN <<Err("Sequence flow missing 'sourceRef'", Get(flow, "id", "?"), "")>>
        ELSE IF flow["sourceRef"] \notin all_ids
        THEN <<Err("Sequence flow has invalid sourceRef", Get(flow, "id", "?"),
                   flow["sourceRef"])>>
        ELSE <<>>)
    \o (IF "targetRef" \notin DOMAIN flow
        THEN <<Err("Sequence flow missing 'targetRef'", Get(flow, "id", "?"), "")>>
        ELSE IF flow["targetRef"] \notin all_ids
        THEN <<Err("Sequence flow has invalid targetRef", Get(flow, "id", "?"),
                   flow["targetRef"])>>
        ELSE <<>>)

\* the ids a loop over list adds to all_ids
IdsOf(list) == {list[n]["id"] : n \in {m \in 1..Len(list) : "id" \in DOMAIN list[m]}}

RECURSIVE EventsFrom(_, _)
EventsFrom(list, n) ==
    IF n > Len(list) THEN <<>> ELSE EventErrors(list[n]) \o EventsFrom(list, n + 1)

RECURSIVE ActivitiesFrom(_, _)
ActivitiesFrom(list, n) ==
    IF n > Len(list) THEN <<>>
    ELSE ActivityErrors(list[n]) \o ActivitiesFrom(list, n + 1)

RECURSIVE GatewaysFrom(_, _)
GatewaysFrom(list, n) ==
    IF n > Len(list) THEN <<>>
    ELSE GatewayErrors(list[n]) \o GatewaysFrom(list, n + 1)

RECURSIVE FlowsFrom(_, _, _)
FlowsFrom(list, n, all_ids) ==
    IF n > Len(list) THEN <<>>
    ELSE FlowErrors(list[n], all_ids) \o FlowsFrom(list, n + 1, all_ids)

\* lines 42-54: [errors, all_ids] after the loop over elements['events']
CheckEvents(st, elements) ==
    IF "events" \notin DOMAIN elements THEN st
    ELSE [errors |-> st.errors \o EventsFrom(elements["events"], 1),
          all_ids |-> st.all_ids \cup IdsOf(elements["events"])]

\* lines 57-74: after the loop over elements['activities']
CheckActivities(st, elements) ==
    IF "activities" \notin DOMAIN elements THEN st
    ELSE [errors |-> st.errors \o ActivitiesFrom(elements["activities"], 1),
          all_ids |-> st.all_ids \cup IdsOf(elements["activities"])]

\* CheckGateways with the flows checked before the gateways are collected
CheckGatewaysNotCollected(st, elements) ==
    IF "gateways" \notin DOMAIN elements THEN st
    ELSE [errors |-> st.errors \o GatewaysFrom(elements["gateways"], 1),
          all_ids |-> st.all_ids]

\* lines 77-84: after the loop over elements['gateways']
CheckGateways(st, elements) ==
    IF "gateways" \notin DOMAIN elements THEN st
    ELSE [errors |-> st.errors \o GatewaysFrom(elements["gateways"], 1),
          all_ids |-> st.all_ids \cup IdsOf(elements["gateways"])]

\* lines 87-98: after the loop over elements['sequenceFlows']
CheckFlows(st, elements) ==
    IF "sequenceFlows" \notin DOMAIN elements THEN st
    ELSE [errors |-> st.errors
                     \o FlowsFrom(elements["sequenceFlows"], 1, st.all_ids),
          all_ids |-> st.all_ids]

\* lines 29-32: the errors for the process fields id and name
ProcessFieldErrors(process) ==
    (IF "id" \notin DOMAIN process THEN <<Err("Process missing 'id' field", "", "")>>
     ELSE <<>>)
    \o (IF "name" \notin DOMAIN process
        THEN <<Err("Process missing 'name' field", "", "")>>
        ELSE <<>>)

\* lines 21-100: the list returned for a parsed document
CheckData(root) ==
    IF "process" \notin DOMAIN root
    THEN <<Err("Missing 'process' root element", "", "")>>
    ELSE LET process == root["process"]
             head == ProcessFieldErrors(process)
         IN  IF "elements" \notin DOMAIN process
             THEN head \o <<Err("Process missing 'elements' field", "", "")>>
             ELSE LET elements == process["elements"]
                      st0 == [errors |-> head, all_ids |-> {}]
                  IN  CheckFlows(
                          CheckGateways(
                              CheckActivities(CheckEvents(st0, elements), elements),
                              elements),
                          elements).errors

InitCheck == InitCombine /\ cpc = "call" /\ data \in BpmnFiles /\ errors = <<>>

\* lines 15-19: json.load raises, one error is returned
CheckUnparsable ==
    /\ cpc = "call"
    /\ data.kind = "unparsable"
    /\ errors' = <<Err("Failed to load JSON", "", "")>>
    /\ cpc' = "returned"
    /\ UNCHANGED <<data, combineVars>>

\* lines 21-100
CheckParsed ==
    /\ cpc = "call"
    /\ data.kind = "json"
    /\ errors' = CheckData(data.root)
    /\ cpc' = "returned"
    /\ UNCHANGED <<data, combineVars>>

NextCheck == CheckUnparsable \/ CheckParsed

SpecCheck == InitCheck /\ [][NextCheck]_vars

Written == out # NoFile

InputsResolved ==
    \A k \in 1..NFiles :
        WasLoaded(k) /\ \A r \in RefsIn(files[k].doc) : Resolves(r, k)

\* the references of source value orig (of document k) and of its image in
\* the combined document point at the same definitions
SameTargets(orig, image, k) ==
    /\ Erase(image) = Erase(orig)
    /\ \A p \in RefPairs(orig, image) :
          \A t \in Denotes(p[1], k) : p[2] = Local(RenamedKey(NameOf(t[1]), t[2]))

TopKeys(doc) == DOMAIN doc.kv \ {K("definitions"), K("$id")}

-----------------------------------------------------------------------------
(* The claims.                                                             *)

\* C1: when every $ref of the source documents resolves, every $ref string of
\* the combined document, those inside the definitions copied from non-base
\* documents included, is a local pointer to a key of the combined
\* definitions, and denotes the definition the original reference denoted.
\* Stated for the runs in which the merge overwrote no definition, so that
\* what fails here is not the key collision of C3.
C1_SelfContained ==
    (Written /\ InputsResolved
       /\ Cardinality(DOMAIN all_definitions) = Cardinality(SourceEntries)) =>
        /\ \A r \in RefsIn(out) : IsLocalPtr(r) /\ Tail(r) \in DOMAIN Defs(out)
        /\ \A en \in SourceEntries :
              LET key == RenamedKey(NameOf(en[1]), en[2])
              IN  /\ key \in DOMAIN Defs(out)
                  /\ SameTargets(Defs(files[en[1]].doc)[en[2]], Defs(out)[key], en[1])
        /\ \A key \in TopKeys(files[BaseIndex].doc) :
              SameTargets(files[BaseIndex].doc.kv[key], out.kv[key], BaseIndex)

\* C2: every external-form $ref of a source document whose target exists is
\* rewritten to a local pointer to a key of the combined definitions, and the
\* combined document keeps no reference into a source file.
C2_NoDanglingReference ==
    Written =>
        /\ \A k \in 1..NFiles : \A r \in RefsIn(files[k].doc) :
              (IsExternalForm(r) /\ Resolves(r, k)) =>
                  /\ IsLocalPtr(RewriteRef(r))
                  /\ Tail(RewriteRef(r)) \in DOMAIN Defs(out)
        /\ \A r \in RefsIn(out) : ~(IsExternalForm(r) /\ Named(FilePart(r)) # {})

C2_Witness ==
    /\ Written
    /\ \E k \in 1..NFiles \ {BaseIndex} : \E r \in RefsIn(files[k].doc) :
          /\ IsExternalForm(r)
          /\ Resolves(r, k)
          /\ RewriteRef(r) \in RefsIn(out)
          /\ r \notin RefsIn(out)

\* C3: no two source entries (document, definition name) get the same key:
\* the merged map has as many keys as the source documents have definitions.
C3_Uniqueness ==
    Merged => Cardinality(DOMAIN all_definitions) = Cardinality(SourceEntries)

\* a reference of the source documents and what became of it in the written
\* document: the base document's own keys, and every definition whose key
\* still holds it
CarriedPairs ==
    UNION {RefPairs(files[BaseIndex].doc.kv[key], out.kv[key]) :
              key \in TopKeys(files[BaseIndex].doc)}
    \cup UNION {RefPairs(Defs(files[en[1]].doc)[en[2]],
                         Defs(out)[MergeKey(NameOf(en[1]), en[2])]) :
                   en \in {x \in SourceEntries :
                              Erase(Defs(out)[MergeKey(NameOf(x[1]), x[2])])
                                  = Erase(Defs(files[x[1]].doc)[x[2]])}}

\* C4: a $ref to the base document's file becomes "#/definitions/<name>", a
\* $ref to another document's file becomes "#/definitions/<prefix>_<name>"
\* with the prefix the short name without its leading "bpmn-", and that is
\* the key under which the merge stores the definition.
C4_RenamingRule ==
    /\ Merged =>
          \A en \in SourceEntries :
              /\ MergeKey(NameOf(en[1]), en[2]) = RenamedKey(NameOf(en[1]), en[2])
              /\ RenamedKey(NameOf(en[1]), en[2]) \in DOMAIN all_definitions
    /\ Written =>
          \A p \in CarriedPairs : \A k \in 1..NFiles :
              (IsExternalForm(p[1]) /\ FilePart(p[1]) = FileName(NameOf(k)))
                  => p[2] = Local(RenamedKey(NameOf(k), NamePart(p[1])))

C4_Witness ==
    /\ Written
    /\ RefTo(Ext(<<"bpmn-", "common">>, NX))
           = files[BaseIndex].doc.kv[K("properties")].kv[K("p")]
    /\ out.kv[K("properties")].kv[K("p")] = RefTo(Local(<<"common", "_", "x">>))
    /\ <<"common", "_", "x">> \in DOMAIN Defs(out)
    /\ NX \in DOMAIN Defs(files[BaseIndex].doc)
    /\ NX \in DOMAIN Defs(out)

\* C7: the combined schema is written only after all schema files were
\* loaded; a missing or malformed file ends the run with nothing written.
C7_WrittenOnlyAfterAllLoaded ==
    /\ Written => (Len(schemas) = NFiles /\ \A k \in 1..NFiles : WasLoaded(k))
    /\ (\E k \in 1..NFiles : files[k].kind \in {"missing", "malformed"})
          => (pc = "aborted" /\ ~Written)

C7_Witness ==
    /\ pc = "aborted"
    /\ \E k \in 2..NFiles :
          /\ files[k].kind = "malformed"
          /\ \A m \in 1..(k - 1) : WasLoaded(m)
    /\ ~Written

\* C8: whatever happens with a sample, every sample of the list gets exactly
\* one report, in list order, and a sample is reported valid exactly when
\* the validator exited with status zero.
C8_EverySampleReported ==
    (pc \in {"done", "crashed"}) =>
        /\ Len(reports) = Len(test_files)
        /\ \A n \in 1..Len(reports) :
              /\ reports[n].file = test_files[n]
              /\ reports[n].valid <=> (reports[n].returncode = 0)

\* C10: every loaded document stays what its file held, and the result
\* differs from the base document only in the definitions, the rewritten
\* $ref strings and the removed top-level $id.
C10_InputsUnmodified ==
    /\ \A k \in 1..NFiles : WasLoaded(k) => heap[k] = files[k].doc
    /\ Finished =>
          LET base == files[BaseIndex].doc
              result == heap[combined]
          IN  /\ DOMAIN result.kv = (DOMAIN base.kv \cup {K("definitions")}) \ {K("$id")}
              /\ \A key \in TopKeys(base) : Erase(result.kv[key]) = Erase(base.kv[key])
              /\ DOMAIN Defs(result) = DOMAIN all_definitions
              /\ \A d \in DOMAIN all_definitions :
                    Erase(Defs(result)[d]) = Erase(all_definitions[d])

C10_Witness ==
    /\ Finished
    /\ K("$id") \in DOMAIN heap[BaseIndex].kv
    /\ K("$id") \notin DOMAIN heap[combined].kv
    /\ Defs(heap[BaseIndex]) # Defs(heap[combined])
    /\ RefsIn(heap[BaseIndex]) # RefsIn(heap[combined])

-----------------------------------------------------------------------------
(* check_bpmn_file: the rules of a document, stated on the document.       *)

Returned == cpc = "returned"

Range(seq) == {seq[n] : n \in 1..Len(seq)}

HasProcess == data.kind = "json" /\ "process" \in DOMAIN data.root

HasElements == HasProcess /\ "elements" \in DOMAIN data.root["process"]

ListAt(kind) ==
    IF HasElements /\ kind \in DOMAIN data.root["process"]["elements"]
    THEN data.root["process"]["elements"][kind]
    ELSE <<>>

\* the ids declared by the members of events, activities and gateways
DeclaredIds ==
    UNION {{ListAt(kind)[n]["id"] :
               n \in {m \in 1..Len(ListAt(kind)) : "id" \in DOMAIN ListAt(kind)[m]}} :
              kind \in {"events", "activities", "gateways"}}

\* the checks a document is put to: <<where, index, rule>>
Checks ==
    {<<"process", 0, r>> : r \in {"id", "name", "elements"}}
    \cup {<<"events", n, r>> :
             n \in 1..Len(ListAt("events")), r \in {"id", "type", "attachedToRef"}}
    \cup {<<"activities", n, r>> :
             n \in 1..Len(ListAt("activities")),
             r \in {"id", "name", "type", "agent.type", "agent.strategy"}}
    \cup {<<"gateways", n, r>> : n \in 1..Len(ListAt("gateways")), r \in {"id", "type"}}
    \cup {<<"sequenceFlows", n, r>> :
             n \in 1..Len(ListAt("sequenceFlows")),
             r \in {"id", "sourceRef", "targetRef", "sourceRef.valid",
                    "targetRef.valid"}}

Subject(c) == IF c[1] = "process" THEN data.root["process"] ELSE ListAt(c[1])[c[2]]

Violated(c) ==
    LET el == Subject(c)
    IN  CASE c[3] = "attachedToRef" ->
                 Get(el, "type", "None") = "boundaryEvent"
                 /\ "attachedToRef" \notin DOMAIN el
          [] c[3] = "agent.type" ->
                 "agent" \in DOMAIN el /\ "type" \notin DOMAIN el["agent"]
          [] c[3] = "agent.strategy" ->
                 "agent" \in DOMAIN el /\ "strategy" \notin DOMAIN el["agent"]
          [] c[3] = "sourceRef.valid" ->
                 "sourceRef" \in DOMAIN el /\ el["sourceRef"] \notin DeclaredIds
          [] c[3] = "targetRef.valid" ->
                 "targetRef" \in DOMAIN el /\ el["targetRef"] \notin DeclaredIds
          [] OTHER -> c[3] \notin DOMAIN el

ViolatedChecks == {c \in Checks : Violated(c)}

\* the error that reports a violated check
Report(c) ==
    LET el == Subject(c)
        id == IF c[1] = "process" THEN ""
              ELSE IF c[3] = "id" THEN "?" ELSE Get(el, "id", "?")
    IN  CASE c[1] = "process" /\ c[3] = "id" -> Err("Process missing 'id' field", id, "")
          [] c[1] = "process" /\ c[3] = "name" ->
                 Err("Process missing 'name' field", id, "")
          [] c[1] = "process" /\ c[3] = "elements" ->
                 Err("Process missing 'elements' field", id, "")
          [] c[1] = "events" /\ c[3] = "id" -> Err("Event missing 'id'", id, "")
          [] c[1] = "events" /\ c[3] = "type" -> Err("Event missing 'type'", id, "")
          [] c[1] = "events" /\ c[3] = "attachedToRef" ->
                 Err("Boundary event missing 'attachedToRef'", id, "")
          [] c[1] = "activities" /\ c[3] = "id" -> Err("Activity missing 'id'", id, "")
          [] c[1] = "activities" /\ c[3] = "name" ->
                 Err("Activity missing 'name'", id, "")
          [] c[1] = "activities" /\ c[3] = "type" ->
                 Err("Activity missing 'type'", id, "")
          [] c[1] = "activities" /\ c[3] = "agent.type" ->
                 Err("Activity agent missing 'type'", id, "")
          [] c[1] = "activities" /\ c[3] = "agent.strategy" ->
                 Err("Activity agent missing 'strategy'", id, "")
          [] c[1] = "gateways" /\ c[3] = "id" -> Err("Gateway missing 'id'", id, "")
          [] c[1] = "gateways" /\ c[3] = "type" -> Err("Gateway missing 'type'", id, "")
          [] c[1] = "sequenceFlows" /\ c[3] = "id" ->
                 Err("Sequence flow missing 'id'", id, "")
          [] c[1] = "sequenceFlows" /\ c[3] = "sourceRef" ->
                 Err("Sequence flow missing 'sourceRef'", id, "")
          [] c[1] = "sequenceFlows" /\ c[3] = "targetRef" ->
                 Err("Sequence flow missing 'targetRef'", id, "")
          [] c[1] = "sequenceFlows" /\ c[3] = "sourceRef.valid" ->
                 Err("Sequence flow has invalid sourceRef", id, el["sourceRef"])
          [] c[1] = "sequenceFlows" /\ c[3] = "targetRef.valid" ->
                 Err("Sequence flow has invalid targetRef", id, el["targetRef"])

Times(e) == Cardinality({n \in 1..Len(errors) : errors[n] = e})

\* the structural rules as the specification lists them
ListedRulesHold ==
    /\ HasElements
    /\ {"id", "name"} \subseteq DOMAIN data.root["process"]
    /\ \A kind \in {"events", "activities", "gateways"} :
          \A n \in 1..Len(ListAt(kind)) :
              {"id", "type"} \subseteq DOMAIN ListAt(kind)[n]
    /\ \A n \in 1..Len(ListAt("events")) :
          ListAt("events")[n]["type"] = "boundaryEvent"
              => "attachedToRef" \in DOMAIN ListAt("events")[n]
    /\ \A n \in 1..Len(ListAt("activities")) :
          "agent" \in DOMAIN ListAt("activities")[n]
              => {"type", "strategy"} \subseteq DOMAIN ListAt("activities")[n]["agent"]
    /\ \A n \in 1..Len(ListAt("sequenceFlows")) :
          LET flow == ListAt("sequenceFlows")[n]
          IN  /\ {"id", "sourceRef", "targetRef"} \subseteq DOMAIN flow
              /\ flow["sourceRef"] \in DeclaredIds
              /\ flow["targetRef"] \in DeclaredIds

ActivitiesNamed ==
    \A n \in 1..Len(ListAt("activities")) : "name" \in DOMAIN ListAt("activities")[n]

RefKey(c) == IF c[3] = "sourceRef.valid" THEN "sourceRef" ELSE "targetRef"

\* the references that are present in the sequence flows
RefChecks ==
    {c \in Checks : /\ c[3] \in {"sourceRef.valid", "targetRef.valid"}
                    /\ RefKey(c) \in DOMAIN Subject(c)}

InvalidRefMsgs ==
    {"Sequence flow has invalid sourceRef", "Sequence flow has invalid targetRef"}

\* C5: a present sourceRef or targetRef of a sequence flow is reported invalid
\* exactly when it is no id declared by an event, activity or gateway,
\* wherever in the document the declaring element stands; one undeclared
\* targetRef in an otherwise valid document gives exactly that one error.
C5_FlowReferences ==
    (Returned /\ HasElements) =>
        /\ \A c \in RefChecks :
              Report(c) \in Range(errors)
                  <=> Subject(c)[RefKey(c)] \notin DeclaredIds
        /\ Cardinality({n \in 1..Len(errors) : errors[n].msg \in InvalidRefMsgs})
             = Cardinality({c \in RefChecks :
                               Subject(c)[RefKey(c)] \notin DeclaredIds})
        /\ \A c \in RefChecks :
              (c[3] = "targetRef.valid" /\ ViolatedChecks = {c})
                  => errors = <<Report(c)>>

C5_Witness ==
    /\ Returned
    /\ HasElements
    /\ ListAt("events") = <<("id" :> "e1") @@ ("type" :> "startEvent")>>
    /\ ListAt("sequenceFlows")
         = <<("id" :> "f1") @@ ("sourceRef" :> "e1") @@ ("targetRef" :> "a2")>>
    /\ {"id", "name"} \subseteq DOMAIN data.root["process"]
    /\ errors = <<Err("Sequence flow has invalid targetRef", "f1", "a2")>>

\* C6 as stated: a parsable document that satisfies the listed rules gets
\* the empty list.
C6_ListedRulesSuffice ==
    (Returned /\ data.kind = "json" /\ ListedRulesHold) => errors = <<>>

\* C6, amended: a parsable document that satisfies the listed rules and
\* whose activities all have a name gets the empty list.
C6_ListedRulesAndNamesSuffice ==
    (Returned /\ data.kind = "json" /\ ListedRulesHold /\ ActivitiesNamed)
        => errors = <<>>

C6_Witness ==
    /\ Returned
    /\ ListedRulesHold
    /\ ActivitiesNamed
    /\ Len(ListAt("activities")) = 1
    /\ "agent" \in DOMAIN ListAt("activities")[1]
    /\ Len(ListAt("sequenceFlows")) = 1
    /\ errors = <<>>

\* C9: an unparsable file and a missing process each give exactly one error
\* and nothing else is checked; otherwise every violated check gives its own
\* error, whatever the checks before it found.
C9_OneErrorPerViolatedCheck ==
    Returned =>
        IF data.kind = "unparsable"
        THEN Len(errors) = 1 /\ errors[1].msg = "Failed to load JSON"
        ELSE IF ~HasProcess
        THEN errors = <<Err("Missing 'process' root element", "", "")>>
        ELSE /\ Len(errors) = Cardinality(ViolatedChecks)
             /\ \A e \in Range(errors) \cup {Report(c) : c \in ViolatedChecks} :
                   Times(e) = Cardinality({c \in ViolatedChecks : Report(c) = e})

C9_Witness ==
    /\ Returned
    /\ HasElements
    /\ "id" \notin DOMAIN data.root["process"]
    /\ "name" \notin DOMAIN data.root["process"]
    /\ Len(ListAt("activities")) = 1
    /\ "agent" \in DOMAIN ListAt("activities")[1]
    /\ DOMAIN ListAt("activities")[1]["agent"] = {"type"}
    /\ errors = <<Err("Process missing 'id' field", "", ""),
                  Err("Process missing 'name' field", "", ""),
                  Err("Activity agent missing 'strategy'", "a1", "")>>

====
